---- MODULE Spec2Model ----
(***************************************************************************)
(* A model of brainmappy's three data paths:                               *)
(*   - parse_raw_ng        (brainmappy/io.py)    the binary mesh decoder   *)
(*   - get_meshes_batch    (brainmappy/fetch.py) the chunked mesh fetch    *)
(*   - get_seg_at_location (brainmappy/fetch.py) the concurrent lookup     *)
(* Python indices are kept 0-based as values; Python lists and arrays are  *)
(* TLA+ sequences, so element i of an array a is a[i + 1].                 *)
(***************************************************************************)
EXTENDS Integers, Sequences, FiniteSets, TLC

VARIABLES
    \* ---- get_seg_at_location ----
    pc,          \* position in get_seg_at_location
    coords,      \* voxel coordinates after line 483
    max_threads, \* the max_threads argument
    labels,      \* cluster label of every coordinate (lines 486-492)
    seg_ix,      \* per job: the original indices (line 509)
    posts,       \* per job: the request payload (line 510)
    futures,     \* per job: the state of its future (line 516)
    completed,   \* history: job numbers in the order their requests completed
    faults,      \* history: number of faulty responses the service gave
    resp,        \* responses gathered in submission order (line 527)
    ids,         \* label lists pulled out of the responses (line 535)
    seg_ids,     \* the float64 result buffer (line 538)
    outcome,     \* what the call gave back: nothing yet, a result, or an error
    \* ---- parse_raw_ng ----
    ppc,         \* position in parse_raw_ng
    sent,        \* history: the fragment records the buffer was encoded from
    x,           \* the bytes to parse
    tell,        \* f.tell()
    object_id,   \* object id of the last record read
    verts,       \* list of vertex arrays, one per record read
    faces,       \* list of face arrays, one per record read
    filenames,   \* list of the filenames read
    parsed,      \* what parse_raw_ng gave back: nothing yet, a tuple, or an error
    \* ---- get_fragments and get_meshes_batch ----
    mpc,          \* position in get_meshes_batch
    listing,      \* the response of the listfragments request
    frags,        \* the (object, fragment key) pairs get_fragments returned
    batch_i,      \* the loop variable i of line 398
    mesh_posts,   \* history: the chunk named by every batch POST, in order
    mesh_resp,    \* resp of line 409: status of the last batch response
    mesh_faults,  \* history: number of faulty batch responses
    received,     \* history: the fragment records of the batches merged
    mesh_verts,   \* verts of line 390 (None is the empty array)
    mesh_faces,   \* faces of line 391 (None is the empty array)
    mesh_outcome  \* what get_meshes_batch gave back

segVars == <<pc, coords, max_threads, labels, seg_ix, posts, futures,
             completed, faults, resp, ids, seg_ids, outcome>>

parseVars == <<ppc, sent, x, tell, object_id, verts, faces, filenames, parsed>>

meshVars == <<mpc, listing, frags, batch_i, mesh_posts, mesh_resp, mesh_faults,
              received, mesh_verts, mesh_faces, mesh_outcome>>

vars == <<segVars, parseVars, meshVars>>

----------------------------------------------------------------------------
\* Bounds of the model

\* coordinate counts reach MaxChunks * chunksize + MaxExtra
MaxChunks == 1
\* distance of the coordinate counts tried from a multiple of chunksize
MaxExtra == 1
\* largest of the small coordinate counts
MaxSmall == 4
\* largest worker pool tried besides the default
MaxW == 1
\* faulty responses the service may give during one call
MaxFaults == 1
\* records in a stream handed to parse_raw_ng directly
MaxRecords == 2
\* fragment counts reach MaxBatches * BatchCap + 1
MaxBatches == 2
\* largest of the small fragment counts
MaxSmallFrags == 3
\* faulty batch responses the mesh service may give during one call
MaxMeshFaults == 1

----------------------------------------------------------------------------
\* Helpers

Min(a, b) == IF a < b THEN a ELSE b

RECURSIVE FlattenRange(_, _, _)
\* ss[lo] \o ... \o ss[hi], halving the range to keep the evaluation shallow
FlattenRange(ss, lo, hi) ==
    IF lo > hi THEN <<>>
    ELSE IF lo = hi THEN ss[lo]
    ELSE FlattenRange(ss, lo, (lo + hi) \div 2)
         \o FlattenRange(ss, (lo + hi) \div 2 + 1, hi)

\* concatenation of a sequence of sequences
Flatten(ss) == FlattenRange(ss, 1, Len(ss))

Range(s) == {s[i] : i \in DOMAIN s}

----------------------------------------------------------------------------
\* get_seg_at_location: splitting the coordinates into jobs

\* chunksize = 2e2
chunksize == 200

\* default of the max_threads argument
DefaultMaxThreads == 10

\* n_chunks = math.ceil(len(coords) / chunksize)
n_chunks(n) == (n + chunksize - 1) \div chunksize

\* np.where(labels == i)[0]: the indices carrying label i, ascending
Where(lab, i) ==
    SelectSeq([p \in 1..Len(lab) |-> p - 1], LAMBDA q : lab[q + 1] = i)

\* Python's s[k : k + n]
Slice(s, k, n) == SubSeq(s, k + 1, Min(k + n, Len(s)))

\* range(0, n, step) as a sequence
RangeStep(n, step) == [m \in 1..((n + step - 1) \div step) |-> (m - 1) * step]

\* the inner loop (lines 507-510) over one cluster's indices: the index slices
MiniChunksOff(ix) ==
    [m \in DOMAIN RangeStep(Len(ix), chunksize) |->
        Slice(ix, RangeStep(Len(ix), chunksize)[m], chunksize + 1)]
MiniChunks(ix) ==
    [m \in DOMAIN RangeStep(Len(ix), chunksize) |->
        Slice(ix, RangeStep(Len(ix), chunksize)[m], chunksize)]

\* a faulty variant of BuildSegIx: the loop stops one cluster early
BuildSegIxShort(lab, k) ==
    Flatten([i \in 1..(k - 1) |-> MiniChunks(Where(lab, i - 1))])
\* the outer loop (lines 494-510): seg_ix, cluster after cluster; an empty
\* cluster yields no slice (range(0, 0, 200) is empty, and line 502 skips it)
BuildSegIx(lab, k) ==
    Flatten([i \in 1..k |-> MiniChunks(Where(lab, i - 1))])

\* ",".join(c) for c in mini_chunk.astype(str)
FormatLoc(c) == ToString(c[1]) \o "," \o ToString(c[2]) \o "," \o ToString(c[3])

\* posts, built beside seg_ix: dict(locations=[...]) of coords[ix]
BuildPosts(cs, six) ==
    [j \in DOMAIN six |->
        [locations |-> [p \in DOMAIN six[j] |-> FormatLoc(cs[six[j][p] + 1])]]]

----------------------------------------------------------------------------
\* Segment ids. The service sends each id as a decimal string of an unsigned
\* 64-bit number; a number n is kept here as <<n \div 10^9, n % 10^9>>, since
\* the ids that matter lie beyond the integers the checker computes with.

U64(hi, lo) == <<hi, lo>>
U64Less(a, b) == a[1] < b[1] \/ (a[1] = b[1] /\ a[2] < b[2])
\* 2^53 and 2^54
Pow53 == U64(9007199, 254740992)
Pow54 == U64(18014398, 509481984)

\* the numbers the model gives to a float64 conversion
U64Modelled(v) == U64Less(v, Pow54)

\* storing the decimal string v into a float64 array (seg_ids is np.zeros(n),
\* dtype float64): exact below 2^53; from 2^53 to 2^54 the nearest even
\* number, a tie going to the multiple of 4 (round-half-to-even).
\* 10^9 is a multiple of 4, so v % 4 = v[2] % 4.
Float64(v) ==
    IF U64Less(v, Pow53) \/ v[2] % 2 = 0 THEN v
    ELSE IF (v[2] - 1) % 4 = 0 THEN U64(v[1], v[2] - 1)
    ELSE IF v[2] + 1 = 10^9 THEN U64(v[1] + 1, 0)
    ELSE U64(v[1], v[2] + 1)

\* seg_ids.astype(int): float64 -> int64, exact on the integral values the
\* buffer holds (all below 2^63)
AsTypeInt(a) == [i \in DOMAIN a |-> a[i]]

----------------------------------------------------------------------------
\* The remote service behind session.post(url, json=p) on the values endpoint

\* distinct x values of the coordinates tried
CoordMod == 4

VoxelSpace == {<<vx, 0, 0>> : vx \in 0..(CoordMod - 1)}

\* the location strings the service can be sent, each with its coordinate
LocTable ==
    [s \in {FormatLoc(c) : c \in VoxelSpace} |->
        CHOOSE c \in VoxelSpace : FormatLoc(c) = s]

\* the coordinate a location string names
ParseLoc(s) == LocTable[s]

\* the segment at a voxel: 0 is unmapped, and one id lies above 2^53
SegAt(c) ==
    CASE c[1] = 0 -> U64(0, 0)
      [] c[1] = 1 -> U64(0, 5)
      [] c[1] = 2 -> U64(0, 7)
      [] OTHER    -> U64(9007199, 254740993)

\* the label list a well-behaved service answers a payload with
ServiceValues(post) ==
    [p \in DOMAIN post.locations |-> SegAt(ParseLoc(post.locations[p]))]

ResponseKinds == {"ok", "http_error", "no_key", "short", "single", "long"}

\* a response: status, and the JSON body as the uint64StrList.values list
\* (has_values tells whether the body carries that list at all)
Response(post, kind) ==
    CASE kind = "ok" ->
           [status |-> 200, has_values |-> TRUE, values |-> ServiceValues(post)]
      [] kind = "http_error" ->
           [status |-> 500, has_values |-> FALSE, values |-> <<>>]
      [] kind = "no_key" ->
           [status |-> 200, has_values |-> FALSE, values |-> <<>>]
      [] kind = "short" ->
           [status |-> 200, has_values |-> TRUE,
            values |-> SubSeq(ServiceValues(post), 1, Len(post.locations) - 1)]
      [] kind = "single" ->
           [status |-> 200, has_values |-> TRUE,
            values |-> SubSeq(ServiceValues(post), 1, 1)]
      [] kind = "long" ->
           [status |-> 200, has_values |-> TRUE,
            values |-> Append(ServiceValues(post), U64(0, 0))]

NoResponse == [status |-> 0, has_values |-> FALSE, values |-> <<>>]

----------------------------------------------------------------------------
\* The state of a function that has not been called

\* object_id before the first iteration of parse_raw_ng's loop
Unbound == <<>>

NotParsed == [kind |-> "none"]

NoOutcome == [kind |-> "none", value |-> <<>>]

SegIdle ==
    /\ pc = "idle"
    /\ coords = <<>>
    /\ max_threads = DefaultMaxThreads
    /\ labels = <<>>
    /\ seg_ix = <<>>
    /\ posts = <<>>
    /\ futures = <<>>
    /\ completed = <<>>
    /\ faults = 0
    /\ resp = <<>>
    /\ ids = <<>>
    /\ seg_ids = <<>>
    /\ outcome = NoOutcome

ParseIdle ==
    /\ ppc = "idle"
    /\ sent = <<>>
    /\ x = <<>>
    /\ tell = 0
    /\ object_id = Unbound
    /\ verts = <<>>
    /\ faces = <<>>
    /\ filenames = <<>>
    /\ parsed = NotParsed

NoListing == [status |-> 0, has_keys |-> FALSE, supervoxelId |-> <<>>,
              fragmentKey |-> <<>>]

MeshIdle ==
    /\ mpc = "idle"
    /\ listing = NoListing
    /\ frags = <<>>
    /\ batch_i = 0
    /\ mesh_posts = <<>>
    /\ mesh_resp = 0
    /\ mesh_faults = 0
    /\ received = <<>>
    /\ mesh_verts = <<>>
    /\ mesh_faces = <<>>
    /\ mesh_outcome = NoOutcome

----------------------------------------------------------------------------
\* get_seg_at_location: inputs

\* the coordinate counts tried: the small ones, every multiple of chunksize,
\* and the counts MaxExtra below and above each multiple
CoordCounts ==
    (0..MaxSmall)
    \cup {m * chunksize + d : m \in 1..MaxChunks, d \in {0 - MaxExtra, 0, MaxExtra}}

\* the coordinate sequences tried (duplicates from the CoordMod-th on)
CoordsOf(n) == [i \in 1..n |-> <<(i - 1) % CoordMod, 0, 0>>]

\* the worker pool sizes tried
ThreadCounts == (1..MaxW) \cup {DefaultMaxThreads}

\* kmeans2(coords, k)[1]: one label in 0..k-1 per coordinate. The labelling
\* depends on a random start, so it is any of: round robin, runs of b equal
\* labels, or everything in one cluster (which leaves the others empty).
KMeansLabels(n, k) ==
    {[i \in 1..n |-> (i - 1) % k]}
    \cup {[i \in 1..n |-> ((i - 1) \div b) % k] : b \in {chunksize \div 2, chunksize + 1}}
    \cup {[i \in 1..n |-> c] : c \in 0..(k - 1)}

----------------------------------------------------------------------------
\* get_seg_at_location: the steps

\* lines 486-492
Cluster ==
    /\ pc = "cluster"
    /\ IF n_chunks(Len(coords)) > 1
         THEN labels' \in KMeansLabels(Len(coords), n_chunks(Len(coords)))
         ELSE labels' = [i \in 1..Len(coords) |-> 0]
    /\ pc' = "build"
    /\ UNCHANGED <<coords, max_threads, seg_ix, posts, futures, completed,
                   faults, resp, ids, seg_ids, outcome>>
    /\ UNCHANGED <<parseVars, meshVars>>

\* lines 494-514
BuildJobs ==
    /\ pc = "build"
    /\ seg_ix' = BuildSegIx(labels, n_chunks(Len(coords)))
    /\ posts' = BuildPosts(coords, seg_ix')
    /\ pc' = "submit"
    /\ UNCHANGED <<coords, max_threads, labels, futures, completed, faults,
                   resp, ids, seg_ids, outcome>>
    /\ UNCHANGED <<parseVars, meshVars>>

\* line 516: every payload is handed to the pool at once
Submit ==
    /\ pc = "submit"
    /\ futures' = [j \in DOMAIN posts |-> [state |-> "queued", response |-> NoResponse]]
    /\ pc' = "gather"
    /\ UNCHANGED <<coords, max_threads, labels, seg_ix, posts, completed,
                   faults, resp, ids, seg_ids, outcome>>
    /\ UNCHANGED <<parseVars, meshVars>>

Running == {j \in DOMAIN futures : futures[j].state = "running"}
Queued == {j \in DOMAIN futures : futures[j].state = "queued"}

\* a faulty variant of WorkerStart: a queued request starts whether or not a
\* worker is free
WorkerStartUnbounded(j) ==
    /\ j \in Queued
    /\ \A i \in Queued : j <= i
    /\ futures' = [futures EXCEPT ![j].state = "running"]
    /\ UNCHANGED <<pc, coords, max_threads, labels, seg_ix, posts, completed,
                   faults, resp, ids, seg_ids, outcome>>
    /\ UNCHANGED <<parseVars, meshVars>>
\* a free worker of the pool (max_workers=max_threads, line 463) takes the
\* oldest queued request
WorkerStart(j) ==
    /\ j \in Queued
    /\ \A i \in Queued : j <= i
    /\ Cardinality(Running) < max_threads
    /\ futures' = [futures EXCEPT ![j].state = "running"]
    /\ UNCHANGED <<pc, coords, max_threads, labels, seg_ix, posts, completed,
                   faults, resp, ids, seg_ids, outcome>>
    /\ UNCHANGED <<parseVars, meshVars>>

\* a faulty variant of WorkerFinish: a request answered with a non-success
\* status goes back to the queue
WorkerFinishRetry(j, kind) ==
    /\ j \in Running
    /\ kind = "ok" \/ faults < MaxFaults
    /\ futures' = [futures EXCEPT ![j] =
                      IF Response(posts[j], kind).status < 400
                        THEN [state |-> "done", response |-> Response(posts[j], kind)]
                        ELSE [state |-> "queued", response |-> NoResponse]]
    /\ completed' = Append(completed, j)
    /\ faults' = IF kind = "ok" THEN faults ELSE faults + 1
    /\ UNCHANGED <<pc, coords, max_threads, labels, seg_ix, posts, resp, ids,
                   seg_ids, outcome>>
    /\ UNCHANGED <<parseVars, meshVars>>
\* a request in flight completes, in any order, with the service's response
WorkerFinish(j, kind) ==
    /\ j \in Running
    /\ kind = "ok" \/ faults < MaxFaults
    /\ completed' = Append(completed, j)
    /\ faults' = IF kind = "ok" THEN faults ELSE faults + 1
    /\ futures' = [futures EXCEPT ![j] =
                      [state |-> "done", response |-> Response(posts[j], kind)]]
    /\ UNCHANGED <<pc, coords, max_threads, labels, seg_ix, posts, resp, ids,
                   seg_ids, outcome>>
    /\ UNCHANGED <<parseVars, meshVars>>

\* a faulty variant of NextResult: take the responses in the order they completed
NextResultByCompletion == completed[Len(resp) + 1]
\* lines 526-527: the future whose result the loop waits for next
NextResult == Len(resp) + 1

\* lines 526-528: resp.append(f.result()), future after future
GatherResult ==
    /\ pc = "gather"
    /\ Len(resp) < Len(futures)
    /\ Len(resp) < Len(completed)
    /\ futures[NextResult].state = "done"
    /\ resp' = Append(resp, futures[NextResult].response)
    /\ UNCHANGED <<pc, coords, max_threads, labels, seg_ix, posts, futures,
                   completed, faults, ids, seg_ids, outcome>>
    /\ UNCHANGED <<parseVars, meshVars>>

\* requests' Response.raise_for_status
StatusOk(r) == r.status < 400

\* lines 531-532
CheckStatus ==
    /\ pc = "gather"
    /\ Len(resp) = Len(futures)
    /\ IF \A k \in DOMAIN resp : StatusOk(resp[k])
         THEN pc' = "extract" /\ outcome' = outcome
         ELSE pc' = "raised" /\ outcome' = [kind |-> "HTTPError", value |-> <<>>]
    /\ UNCHANGED <<coords, max_threads, labels, seg_ix, posts, futures,
                   completed, faults, resp, ids, seg_ids>>
    /\ UNCHANGED <<parseVars, meshVars>>

\* a faulty variant of Extract: a response without the list is skipped
ExtractSkipping ==
    /\ pc = "extract"
    /\ ids' = LET RECURSIVE Kept(_)
                 Kept(k) == IF k = 0 THEN <<>>
                            ELSE IF resp[k].has_values
                              THEN Append(Kept(k - 1), resp[k].values)
                            ELSE Kept(k - 1)
             IN Kept(Len(resp))
    /\ pc' = "populate"
    /\ UNCHANGED <<coords, max_threads, labels, seg_ix, posts, futures,
                   completed, faults, resp, seg_ids, outcome>>
    /\ UNCHANGED <<parseVars, meshVars>>
\* line 535
Extract ==
    /\ pc = "extract"
    /\ IF \A k \in DOMAIN resp : resp[k].has_values
         THEN /\ ids' = [k \in DOMAIN resp |-> resp[k].values]
              /\ pc' = "populate"
              /\ outcome' = outcome
         ELSE /\ ids' = ids
              /\ pc' = "raised"
              /\ outcome' = [kind |-> "KeyError", value |-> <<>>]
    /\ UNCHANGED <<coords, max_threads, labels, seg_ix, posts, futures,
                   completed, faults, resp, seg_ids>>
    /\ UNCHANGED <<parseVars, meshVars>>

\* numpy's seg_ids[ix] = i takes a list as long as ix, or of one element
\* (broadcast); any other length is a ValueError
Assignable(ix, vals) == Len(vals) = Len(ix) \/ Len(vals) = 1

RECURSIVE AssignRange(_, _, _, _, _)
\* seg_ids[ix] = i for the positions lo..hi of ix, in order: each value is
\* stored as a float64. The range is halved, and the left half is computed
\* (its length asked for) before the right half starts, which keeps the
\* evaluation shallow.
AssignRange(buf, ix, vals, lo, hi) ==
    IF lo > hi THEN buf
    ELSE IF lo = hi
      THEN [buf EXCEPT ![ix[lo] + 1] = Float64(vals[IF Len(vals) = 1 THEN 1 ELSE lo])]
    ELSE LET left == AssignRange(buf, ix, vals, lo, (lo + hi) \div 2)
         IN IF Len(left) < 0 THEN left
            ELSE AssignRange(left, ix, vals, (lo + hi) \div 2 + 1, hi)

\* seg_ids[ix] = i
Assign(buf, ix, vals) == AssignRange(buf, ix, vals, 1, Len(ix))

RECURSIVE Scatter(_, _, _, _)
\* lines 539-540 from job j on: the buffer, or a ValueError
Scatter(buf, six, idl, j) ==
    IF j > Min(Len(six), Len(idl)) THEN [error |-> FALSE, buf |-> buf]
    ELSE IF ~Assignable(six[j], idl[j]) THEN [error |-> TRUE, buf |-> <<>>]
    ELSE Scatter(Assign(buf, six[j], idl[j]), six, idl, j + 1)

\* lines 537-540
Populate ==
    /\ pc = "populate"
    /\ LET r == Scatter([i \in 1..Len(coords) |-> U64(0, 0)], seg_ix, ids, 1)
       IN IF r.error
            THEN /\ pc' = "raised"
                 /\ outcome' = [kind |-> "ValueError", value |-> <<>>]
                 /\ seg_ids' = seg_ids
            ELSE /\ pc' = "return"
                 /\ outcome' = outcome
                 /\ seg_ids' = r.buf
    /\ UNCHANGED <<coords, max_threads, labels, seg_ix, posts, futures,
                   completed, faults, resp, ids>>
    /\ UNCHANGED <<parseVars, meshVars>>

\* line 542
Return ==
    /\ pc = "return"
    /\ pc' = "done"
    /\ outcome' = [kind |-> "returned", value |-> AsTypeInt(seg_ids)]
    /\ UNCHANGED <<coords, max_threads, labels, seg_ix, posts, futures,
                   completed, faults, resp, ids, seg_ids>>
    /\ UNCHANGED <<parseVars, meshVars>>

InitSeg ==
    /\ pc = "cluster"
    /\ coords \in {CoordsOf(n) : n \in CoordCounts}
    /\ max_threads \in ThreadCounts
    /\ labels = <<>>
    /\ seg_ix = <<>>
    /\ posts = <<>>
    /\ futures = <<>>
    /\ completed = <<>>
    /\ faults = 0
    /\ resp = <<>>
    /\ ids = <<>>
    /\ seg_ids = <<>>
    /\ outcome = NoOutcome
    /\ ParseIdle
    /\ MeshIdle

NextSeg ==
    \/ Cluster
    \/ BuildJobs
    \/ Submit
    \/ \E j \in DOMAIN futures : WorkerStart(j)
    \/ \E j \in DOMAIN futures : \E kind \in ResponseKinds : WorkerFinish(j, kind)
    \/ GatherResult
    \/ CheckStatus
    \/ Extract
    \/ Populate
    \/ Return

SpecSeg == InitSeg /\ [][NextSeg]_vars

\* the main thread runs on; a pool worker that is free takes a queued request;
\* a request in flight is answered
SpecSegFair ==
    /\ SpecSeg
    /\ WF_vars(Cluster \/ BuildJobs \/ Submit)
    /\ WF_vars(\E j \in DOMAIN futures : WorkerStart(j))
    /\ WF_vars(\E j \in DOMAIN futures : \E kind \in ResponseKinds : WorkerFinish(j, kind))

----------------------------------------------------------------------------
\* The binary mesh format (docstring of parse_raw_ng), byte by byte.
\* Bytes are numbers 0..255; struct's native byte order is little-endian on
\* the hosts the package runs on. A vertex coordinate is kept as a number of
\* quarters (1.5 is 6), which float32 holds exactly in the range used.

\* struct's 'i': 4 bytes at offset at (0-based), signed
I32(b, at) ==
    b[at + 1] + 256 * b[at + 2] + 65536 * b[at + 3]
    + 16777216 * (IF b[at + 4] >= 128 THEN b[at + 4] - 256 ELSE b[at + 4])

\* struct's 'q': 8 bytes at offset at, signed, as <<top, mid, low>> with
\* low = bytes 1-3, mid = bytes 4-6, top = bytes 7-8
Q64(b, at) ==
    << b[at + 7] + 256 * b[at + 8],
       b[at + 4] + 256 * b[at + 5] + 65536 * b[at + 6],
       b[at + 1] + 256 * b[at + 2] + 65536 * b[at + 3] >>
QNegative(q) == q[1] >= 32768
QSmall(q) == q[1] = 0 /\ q[2] = 0

\* a float32 outside the range kept as quarters
F32Other == 0 - 2^30

\* struct's 'f': 4 bytes at offset at, IEEE-754 binary32, in quarters
F32(b, at) ==
    LET e == 2 * (b[at + 4] % 128) + (b[at + 3] \div 128)
        mant == (b[at + 3] % 128) * 65536 + b[at + 2] * 256 + b[at + 1]
        neg == b[at + 4] >= 128
    IN IF e = 0 /\ mant = 0 THEN 0
       ELSE IF e < 125 \/ e > 148 THEN F32Other
       ELSE IF (2^23 + mant) % (2^(148 - e)) # 0 THEN F32Other
       ELSE IF neg THEN 0 - ((2^23 + mant) \div (2^(148 - e)))
       ELSE (2^23 + mant) \div (2^(148 - e))

\* the encoder of the service (struct.pack of the same formats)
I32Bytes(v) ==
    LET b4 == IF v < 0 THEN 255 - ((0 - v - 1) \div 16777216)
              ELSE v \div 16777216
        w == IF v < 0 THEN 16777215 - ((0 - v - 1) % 16777216) ELSE v % 16777216
    IN <<w % 256, (w \div 256) % 256, w \div 65536, b4>>

\* a count or an id below 2^24 as 8 bytes
Q64Bytes(v) == <<v % 256, (v \div 256) % 256, v \div 65536, 0, 0, 0, 0, 0>>

\* the exponent field of a positive number q of quarters
RECURSIVE F32Exp(_, _)
F32Exp(q, e) == IF q < 2^(e - 124) THEN e ELSE F32Exp(q, e + 1)

F32Bytes(q) ==
    IF q = 0 THEN <<0, 0, 0, 0>>
    ELSE LET a == IF q < 0 THEN 0 - q ELSE q
             e == F32Exp(a, 125)
             mant == a * 2^(148 - e) - 2^23
         IN << mant % 256, (mant \div 256) % 256,
               (e % 2) * 128 + mant \div 65536,
               (IF q < 0 THEN 128 ELSE 0) + e \div 2 >>

\* one fragment record, laid out as the docstring says (no padding after
\* the filename)
RecordBytes(r) ==
    Q64Bytes(r.object_id) \o I32Bytes(Len(r.label)) \o <<0, 0, 0, 0>>
    \o r.label
    \o Q64Bytes(Len(r.verts)) \o Q64Bytes(Len(r.faces))
    \o Flatten([v \in DOMAIN r.verts |->
            F32Bytes(r.verts[v][1]) \o F32Bytes(r.verts[v][2]) \o F32Bytes(r.verts[v][3])])
    \o Flatten([f \in DOMAIN r.faces |->
            I32Bytes(r.faces[f][1]) \o I32Bytes(r.faces[f][2]) \o I32Bytes(r.faces[f][3])])

\* a stream: the records one after the other
Encode(rs) == Flatten([k \in DOMAIN rs |-> RecordBytes(rs[k])])

----------------------------------------------------------------------------
\* parse_raw_ng

\* alignment struct gives a 'q' in native mode (no byte-order prefix)
QAlign == 8

\* struct.calcsize('{}s2q'.format(n)): the string, padding up to the
\* alignment of q, and two q
CalcSizeS2Q(n) == ((n + QAlign - 1) \div QAlign) * QAlign + 16

\* struct.unpack raises struct.error unless the buffer is exactly as long as
\* the format needs
Unpackable(need, got) == need = got

\* f.read(n) at position t of buffer b: the number of bytes it returns
ReadLen(b, t, n) == Min(n, Len(b) - t)

\* a faulty variant of FaceOffset: no offset
FaceOffsetNone(vs) == 0
\* sum([v.shape[0] for v in verts])
FaceOffset(vs) == Len(Flatten(vs))

NoRecord == [error |-> TRUE, tell |-> 0, object_id |-> <<0, 0, 0>>, fn |-> <<>>,
             this_verts |-> <<>>, this_faces |-> <<>>]

\* lines 254-260 of one iteration: the vertex and face arrays, read at
\* position t2 once object id, filename and counts are known
ReadArrays(b, t2, oid, fn, n_verts, n_faces) ==
    IF QNegative(n_verts) \/ ~QSmall(n_verts) \/ n_verts[3] > Len(b) THEN NoRecord
    ELSE IF ~Unpackable(n_verts[3] * 12, ReadLen(b, t2, n_verts[3] * 12))
      THEN NoRecord
    ELSE LET t3 == t2 + n_verts[3] * 12
         IN IF QNegative(n_faces) \/ ~QSmall(n_faces) \/ n_faces[3] > Len(b)
              THEN NoRecord
            ELSE IF ~Unpackable(n_faces[3] * 12, ReadLen(b, t3, n_faces[3] * 12))
              THEN NoRecord
            ELSE [error |-> FALSE,
                  tell |-> t3 + n_faces[3] * 12,
                  object_id |-> oid,
                  fn |-> fn,
                  this_verts |->
                      [v \in 1..n_verts[3] |->
                          << F32(b, t2 + 12 * (v - 1)),
                             F32(b, t2 + 12 * (v - 1) + 4),
                             F32(b, t2 + 12 * (v - 1) + 8) >>],
                  this_faces |->
                      [f \in 1..n_faces[3] |->
                          << I32(b, t3 + 12 * (f - 1)),
                             I32(b, t3 + 12 * (f - 1) + 4),
                             I32(b, t3 + 12 * (f - 1) + 8) >>]]

\* lines 250-260: one record read at position t of buffer b, or struct.error
ReadRecord(b, t) ==
    IF ~Unpackable(16, ReadLen(b, t, 16)) THEN NoRecord
    ELSE LET filenamelen == I32(b, t + 8)
             t1 == t + 16
         IN IF filenamelen < 0 \/ filenamelen > Len(b) THEN NoRecord
            ELSE IF ~Unpackable(CalcSizeS2Q(filenamelen),
                                ReadLen(b, t1, filenamelen + 16))
              THEN NoRecord
            ELSE ReadArrays(b, t1 + filenamelen + 16, Q64(b, t),
                            SubSeq(b, t1 + 1, t1 + filenamelen),
                            Q64(b, t1 + filenamelen),
                            Q64(b, t1 + filenamelen + 8))

\* this_faces + offset
ShiftFaces(fs, off) ==
    [f \in DOMAIN fs |-> <<fs[f][1] + off, fs[f][2] + off, fs[f][3] + off>>]

\* truncation toward zero of a number of quarters: astype(int) of a float
TruncQuarters(q) == IF q < 0 THEN 0 - ((0 - q) \div 4) ELSE q \div 4

\* np.vstack(verts).astype(int)
VStackInt(vs) ==
    LET a == Flatten(vs)
    IN [v \in DOMAIN a |->
          <<TruncQuarters(a[v][1]), TruncQuarters(a[v][2]), TruncQuarters(a[v][3])>>]

\* lines 238-247: the call, on the bytes b
ParseCall(b) ==
    /\ x' = b
    /\ tell' = 0
    /\ object_id' = Unbound
    /\ verts' = <<>>
    /\ faces' = <<>>
    /\ filenames' = <<>>
    /\ parsed' = NotParsed
    /\ ppc' = "loop"

\* a faulty variant of OnStructError: the error ends the loop, and what was decoded
\* so far is returned
OnStructErrorStop ==
    /\ ppc' = "returned"
    /\ parsed' = [kind |-> "returned", object_id |-> object_id,
                  filenames |-> filenames, verts |-> VStackInt(verts),
                  faces |-> Flatten(faces)]
    /\ UNCHANGED <<tell, object_id, verts, faces, filenames>>
\* struct.unpack raises struct.error, which nothing in parse_raw_ng catches
OnStructError ==
    /\ ppc' = "raised"
    /\ parsed' = [kind |-> "struct.error"]
    /\ UNCHANGED <<tell, object_id, verts, faces, filenames>>

\* lines 249-265: one iteration of the loop
ParseRecord ==
    /\ ppc = "loop"
    /\ tell < Len(x)
    /\ LET r == ReadRecord(x, tell)
       IN IF r.error
            THEN OnStructError
            ELSE /\ tell' = r.tell
                 /\ object_id' = r.object_id
                 /\ faces' = Append(faces, ShiftFaces(r.this_faces, FaceOffset(verts)))
                 /\ verts' = Append(verts, r.this_verts)
                 /\ filenames' = Append(filenames, r.fn)
                 /\ UNCHANGED <<ppc, parsed>>
    /\ UNCHANGED <<sent, x>>
    /\ UNCHANGED <<segVars, meshVars>>

\* line 267: object_id is unbound, and np.vstack has nothing to stack, when
\* the loop never ran
ParseReturn ==
    /\ ppc = "loop"
    /\ tell >= Len(x)
    /\ IF object_id = Unbound
         THEN /\ ppc' = "raised"
              /\ parsed' = [kind |-> "UnboundLocalError"]
         ELSE /\ ppc' = "returned"
              /\ parsed' = [kind |-> "returned",
                            object_id |-> object_id,
                            filenames |-> filenames,
                            verts |-> VStackInt(verts),
                            faces |-> Flatten(faces)]
    /\ UNCHANGED <<sent, x, tell, object_id, verts, faces, filenames>>
    /\ UNCHANGED <<segVars, meshVars>>

----------------------------------------------------------------------------
\* parse_raw_ng called on its own: the streams tried

\* a filename of n bytes
LabelOf(n) == [i \in 1..n |-> 96 + i]

\* the fragments put into streams: an empty one, a triangle, a fragment of
\* two vertices, and one whose filename is 3 bytes long
FragmentShapes ==
    { [label |-> LabelOf(0), verts |-> <<>>, faces |-> <<>>],
      [label |-> LabelOf(8),
       verts |-> <<<<0, 0, 0>>, <<4, 0, 0>>, <<6, 2, 0 - 9>>>>,
       faces |-> <<<<0, 1, 2>>>>],
      [label |-> LabelOf(8),
       verts |-> <<<<8, 8, 8>>, <<1, 0, 0>>>>,
       faces |-> <<<<0, 1, 1>>>>],
      [label |-> LabelOf(3), verts |-> <<<<4, 4, 4>>>>, faces |-> <<>>] }

\* the object id of the first record
FirstObjectId == 7

\* a stream's records: shapes sh, all of one object (step 0) or each record
\* of another object (step 1)
RecordsOf(sh, step) ==
    [k \in DOMAIN sh |->
        [object_id |-> FirstObjectId + step * (k - 1), label |-> sh[k].label,
         verts |-> sh[k].verts, faces |-> sh[k].faces]]

StreamRecords ==
    UNION {{RecordsOf(sh, step) : sh \in [1..n -> FragmentShapes], step \in {0, 1}} :
              n \in 0..MaxRecords}

\* the call parse_raw_ng(x) on a stream or on a stream cut short
InitParse ==
    /\ SegIdle
    /\ MeshIdle
    /\ sent \in StreamRecords
    /\ x \in {SubSeq(Encode(sent), 1, cut) : cut \in 0..Len(Encode(sent))}
    /\ ppc = "loop"
    /\ tell = 0
    /\ object_id = Unbound
    /\ verts = <<>>
    /\ faces = <<>>
    /\ filenames = <<>>
    /\ parsed = NotParsed

NextParse ==
    \/ ParseRecord
    \/ ParseReturn

SpecParse == InitParse /\ [][NextParse]_vars

----------------------------------------------------------------------------
\* get_fragments and get_meshes_batch: the service

\* "There is a hard cap of 100 fragments per query"
BatchCap == 100

\* the fragment counts tried: the small ones, and those around every multiple
\* of the cap
FragCounts ==
    (0..MaxSmallFrags)
    \cup {m * BatchCap + d : m \in 1..MaxBatches, d \in {0 - 1, 0, 1}}

\* the supervoxel a fragment belongs to
SupervoxelOf(key) == 1000 + key

\* the responses of the listfragments request: an error status, an empty
\* JSON object, or the two lists (which may be empty), with keys 1..n
Listings ==
    { [status |-> 500, has_keys |-> FALSE, supervoxelId |-> <<>>, fragmentKey |-> <<>>],
      [status |-> 200, has_keys |-> FALSE, supervoxelId |-> <<>>, fragmentKey |-> <<>>] }
    \cup { [status |-> 200, has_keys |-> TRUE,
            supervoxelId |-> [k \in 1..n |-> SupervoxelOf(k)],
            fragmentKey |-> [k \in 1..n |-> k]] : n \in FragCounts }

\* the fragment key as the 8 bytes of a filename
KeyLabel(key) == <<key % 256, key \div 256, 0, 0, 0, 0, 0, 0>>

\* the mesh the service holds for a fragment: a triangle, a fragment of two
\* vertices, or an empty fragment, by its key
FragmentRecord(pair) ==
    CASE pair[2] % 3 = 1 ->
           [object_id |-> pair[1], label |-> KeyLabel(pair[2]),
            verts |-> <<<<0, 0, 0>>, <<4, 0, 0>>, <<6, 2, 0 - 9>>>>,
            faces |-> <<<<0, 1, 2>>>>]
      [] pair[2] % 3 = 2 ->
           [object_id |-> pair[1], label |-> KeyLabel(pair[2]),
            verts |-> <<<<8, 8, 8>>, <<1, 0, 0>>>>,
            faces |-> <<<<0, 1, 1>>>>]
      [] OTHER ->
           [object_id |-> pair[1], label |-> KeyLabel(pair[2]),
            verts |-> <<>>, faces |-> <<>>]

\* the body of an error response that is no mesh stream: {"error": 500}
ErrorText == <<123, 34, 101, 114, 114, 111, 114, 34, 58, 32, 53, 48, 48, 125>>

MeshResponseKinds == {"ok", "truncated", "error_empty", "error_text", "error_stream"}

\* the records behind the body of a batch response
MeshRecords(chunk, kind) ==
    IF kind \in {"error_empty", "error_text"} THEN <<>>
    ELSE [k \in DOMAIN chunk |-> FragmentRecord(chunk[k])]

\* a batch response: the status, and the body the records are sent in
MeshStatus(kind) == IF kind \in {"ok", "truncated"} THEN 200 ELSE 500
MeshContent(chunk, kind) ==
    CASE kind = "error_empty" -> <<>>
      [] kind = "error_text" -> ErrorText
      [] kind = "truncated" ->
           SubSeq(Encode(MeshRecords(chunk, kind)), 1,
                  Len(Encode(MeshRecords(chunk, kind))) - 1)
      [] OTHER -> Encode(MeshRecords(chunk, kind))

----------------------------------------------------------------------------
\* get_fragments and get_meshes_batch: the steps

\* get_fragments, lines 322-330, called at line 379
GetFragments ==
    /\ mpc = "list"
    /\ IF ~StatusOk(listing)
         THEN /\ mpc' = "raised"
              /\ mesh_outcome' = [kind |-> "HTTPError", value |-> <<>>]
              /\ frags' = frags
       ELSE IF ~listing.has_keys
         THEN /\ mpc' = "raised"
              /\ mesh_outcome' = [kind |-> "ValueError", value |-> <<>>]
              /\ frags' = frags
       ELSE /\ mpc' = "loop"
            /\ mesh_outcome' = mesh_outcome
            /\ frags' = [k \in 1..Min(Len(listing.supervoxelId), Len(listing.fragmentKey)) |->
                            <<listing.supervoxelId[k], listing.fragmentKey[k]>>]
    /\ UNCHANGED <<listing, batch_i, mesh_posts, mesh_resp, mesh_faults, received,
                   mesh_verts, mesh_faces>>
    /\ UNCHANGED <<segVars, parseVars>>

\* a faulty variant of Chunk: the slice is one fragment longer
ChunkLong(fr, i) == Slice(fr, i, BatchCap + 1)
\* chunk = frags[i : i + 100]
Chunk(fr, i) == Slice(fr, i, BatchCap)

\* lines 398-412: the next chunk is posted, and the body of the response is
\* handed to parse_raw_ng whatever the status
PostBatch(kind) ==
    /\ mpc = "loop"
    /\ batch_i < Len(frags)
    /\ kind = "ok" \/ mesh_faults < MaxMeshFaults
    /\ mesh_posts' = Append(mesh_posts, Chunk(frags, batch_i))
    /\ mesh_resp' = MeshStatus(kind)
    /\ mesh_faults' = IF kind = "ok" THEN mesh_faults ELSE mesh_faults + 1
    /\ sent' = MeshRecords(Chunk(frags, batch_i), kind)
    /\ ParseCall(MeshContent(Chunk(frags, batch_i), kind))
    /\ mpc' = "parsing"
    /\ UNCHANGED <<listing, frags, batch_i, received, mesh_verts, mesh_faces,
                   mesh_outcome>>
    /\ UNCHANGED segVars

\* a faulty variant of MergeOffset: the faces of a batch are appended unshifted
MergeOffsetNone(vs) == 0
\* verts.shape[0] of line 415
MergeOffset(vs) == Len(vs)

\* lines 412-418: parse_raw_ng returned, and the batch is merged
MergeBatch ==
    /\ mpc = "parsing"
    /\ ppc = "returned"
    /\ mesh_faces' = mesh_faces \o ShiftFaces(parsed.faces, MergeOffset(mesh_verts))
    /\ mesh_verts' = mesh_verts \o parsed.verts
    /\ received' = received \o sent
    /\ batch_i' = batch_i + BatchCap
    /\ mpc' = "loop"
    /\ ppc' = "idle"
    /\ UNCHANGED <<listing, frags, mesh_posts, mesh_resp, mesh_faults, mesh_outcome>>
    /\ UNCHANGED <<sent, x, tell, object_id, verts, faces, filenames, parsed>>
    /\ UNCHANGED segVars

\* a faulty variant of ParseFailed: the batch whose response did not decode
\* is tried again
ParseFailedRetry ==
    /\ mpc = "parsing"
    /\ ppc = "raised"
    /\ mpc' = "loop"
    /\ ppc' = "idle"
    /\ UNCHANGED <<listing, frags, batch_i, mesh_posts, mesh_resp, mesh_faults,
                   received, mesh_verts, mesh_faces, mesh_outcome>>
    /\ UNCHANGED <<sent, x, tell, object_id, verts, faces, filenames, parsed>>
    /\ UNCHANGED segVars

\* line 412: the error parse_raw_ng raised leaves get_meshes_batch
ParseFailed ==
    /\ mpc = "parsing"
    /\ ppc = "raised"
    /\ mpc' = "raised"
    /\ mesh_outcome' = [kind |-> parsed.kind, value |-> <<>>]
    /\ UNCHANGED <<listing, frags, batch_i, mesh_posts, mesh_resp, mesh_faults,
                   received, mesh_verts, mesh_faces>>
    /\ UNCHANGED <<segVars, parseVars>>

\* line 420
ReturnMesh ==
    /\ mpc = "loop"
    /\ batch_i >= Len(frags)
    /\ mpc' = "done"
    /\ mesh_outcome' = [kind |-> "returned",
                        value |-> [verts |-> mesh_verts, faces |-> mesh_faces]]
    /\ UNCHANGED <<listing, frags, batch_i, mesh_posts, mesh_resp, mesh_faults,
                   received, mesh_verts, mesh_faces>>
    /\ UNCHANGED <<segVars, parseVars>>

InitMesh ==
    /\ SegIdle
    /\ ParseIdle
    /\ mpc = "list"
    /\ listing \in Listings
    /\ frags = <<>>
    /\ batch_i = 0
    /\ mesh_posts = <<>>
    /\ mesh_resp = 0
    /\ mesh_faults = 0
    /\ received = <<>>
    /\ mesh_verts = <<>>
    /\ mesh_faces = <<>>
    /\ mesh_outcome = NoOutcome

NextMesh ==
    \/ GetFragments
    \/ \E kind \in MeshResponseKinds : PostBatch(kind)
    \/ ParseRecord
    \/ ParseReturn
    \/ MergeBatch
    \/ ParseFailed
    \/ ReturnMesh

SpecMesh == InitMesh /\ [][NextMesh]_vars

----------------------------------------------------------------------------
\* Claims about get_seg_at_location

Finished == pc \in {"done", "raised"}

\* what a serial run (one request at a time, in submission order) gives when
\* the service answers every job as it did in this run
SerialOutcome ==
    LET rs == [j \in DOMAIN futures |-> futures[j].response]
        r == Scatter([i \in 1..Len(coords) |-> U64(0, 0)], seg_ix,
                     [j \in DOMAIN rs |-> rs[j].values], 1)
    IN IF \E j \in DOMAIN rs : ~StatusOk(rs[j])
         THEN [kind |-> "HTTPError", value |-> <<>>]
       ELSE IF \E j \in DOMAIN rs : ~rs[j].has_values
         THEN [kind |-> "KeyError", value |-> <<>>]
       ELSE IF r.error THEN [kind |-> "ValueError", value |-> <<>>]
       ELSE [kind |-> "returned", value |-> AsTypeInt(r.buf)]

\* C1: whatever order the concurrent requests complete in, the call ends as
\* the serial run does: the same result element for element (or the same
\* error), for every pool size.
C1_OrderPreserved == Finished => outcome = SerialOutcome

\* C1 witness: a pool of more than one worker, requests that completed out of
\* submission order, duplicate coordinates, and a returned result.
C1_Witness ==
    /\ pc = "done"
    /\ max_threads > 1
    /\ Len(completed) > 1
    /\ completed[1] # 1
    /\ Len(coords) > CoordMod
    /\ \E i \in DOMAIN outcome.value : outcome.value[i] # U64(0, 0)

AllOk == \A j \in DOMAIN resp : resp[j] = Response(posts[j], "ok")

\* C2: when every job succeeds the result has one entry per coordinate, and
\* the q-th label of job j's response is the entry at the original index of
\* the q-th coordinate of job j.
C2_LabelsAtOriginalIndex ==
    (pc = "done" /\ AllOk) =>
        /\ Len(outcome.value) = Len(coords)
        /\ \A j \in DOMAIN seg_ix : \A q \in DOMAIN seg_ix[j] :
              outcome.value[seg_ix[j][q] + 1] = resp[j].values[q]

Built == pc \notin {"cluster", "build"}

\* the jobs as built: as many original indices as coordinates in each, in the
\* same order, none empty, none above chunksize
JobsCapped ==
    /\ Len(seg_ix) = Len(posts)
    /\ \A j \in DOMAIN seg_ix :
          /\ Len(seg_ix[j]) = Len(posts[j].locations)
          /\ Len(seg_ix[j]) >= 1
          /\ Len(seg_ix[j]) <= chunksize
          /\ \A q \in DOMAIN seg_ix[j] :
                posts[j].locations[q] = FormatLoc(coords[seg_ix[j][q] + 1])

\* C3: every job that the job-building step hands to the pool has as many
\* original indices as coordinates, in the same order, is not empty, and holds
\* at most chunksize coordinates; no later step changes a job.
C3_JobsCapped ==
    [][/\ BuildJobs => JobsCapped'
       /\ Built => UNCHANGED <<seg_ix, posts>>]_vars

\* C3 witness: a cluster larger than the cap was chopped into a full job and
\* a remainder, while another cluster stayed empty.
C3_Witness ==
    /\ Built
    /\ \E i \in 0..(n_chunks(Len(coords)) - 1) : Len(Where(labels, i)) > chunksize
    /\ \E i \in 0..(n_chunks(Len(coords)) - 1) : Len(Where(labels, i)) = 0
    /\ \E j \in DOMAIN seg_ix : Len(seg_ix[j]) = chunksize
    /\ \E j \in DOMAIN seg_ix : Len(seg_ix[j]) < chunksize

----------------------------------------------------------------------------
\* Claims about parse_raw_ng

ParseFinished == ppc \in {"returned", "raised"}

\* the buffer is the whole stream of the records sent
Whole == x = Encode(sent)

\* the buffer lengths at which a record of the stream ends
RecordEnds == {Len(Encode(SubSeq(sent, 1, k))) : k \in 0..Len(sent)}

\* the buffer is the stream cut inside a record
Truncated == Len(x) \notin RecordEnds

\* number of vertices of the records before the k-th
VertsBefore(k) == Len(Flatten([j \in 1..(k - 1) |-> sent[j].verts]))

\* a vertex array read equals the one encoded (coordinates in quarters)
SameVerts(got, enc) ==
    /\ Len(got) = Len(enc)
    /\ \A v \in DOMAIN got : \A c \in 1..3 : 4 * got[v][c] = enc[v][c]

\* C6: decoding the stream of N >= 0 fragments gives N fragments with the
\* vertices, faces and labels that were encoded, and consumes every byte.
C6_RoundTrip ==
    (ParseFinished /\ Whole) =>
        /\ ppc = "returned"
        /\ tell = Len(x)
        /\ Len(parsed.filenames) = Len(sent)
        /\ \A k \in DOMAIN sent : parsed.filenames[k] = sent[k].label
        /\ SameVerts(parsed.verts, Flatten([k \in DOMAIN sent |-> sent[k].verts]))
        /\ parsed.faces = Flatten([k \in DOMAIN sent |-> sent[k].faces])

\* C7 as claimed: every fragment's faces come out as encoded, no offset added.
C7_FacesLocal ==
    \A k \in DOMAIN faces : faces[k] = sent[k].faces

\* C7 as amended: only the first fragment's faces come out as encoded; every
\* index of a later fragment comes out as encoded plus the number of vertices
\* of the fragments before it in the same stream, and the faces returned are
\* these arrays one after the other.
C7_FacesShiftedInStream ==
    /\ \A k \in DOMAIN faces :
          /\ Len(faces[k]) = Len(sent[k].faces)
          /\ \A f \in DOMAIN faces[k] : \A c \in 1..3 :
                faces[k][f][c] = sent[k].faces[f][c] + VertsBefore(k)
    /\ ppc = "returned" => parsed.faces = Flatten(faces)

\* C7 witness: a second fragment with a face was read after a first fragment
\* with vertices, and the call returned.
C7_Witness ==
    /\ ppc = "returned"
    /\ Len(faces) >= 2
    /\ Len(verts[1]) > 0
    /\ Len(faces[2]) > 0

\* C8: a buffer cut inside a record makes parse_raw_ng raise; it never returns
\* the fragments decoded before the cut.
C8_TruncatedRaises ==
    Truncated =>
        /\ ppc # "returned"
        /\ ParseFinished => parsed.kind = "struct.error"

\* C8 witness: the cut came after a whole record, which was decoded, and the
\* call raised.
C8_Witness ==
    /\ Truncated
    /\ ppc = "raised"
    /\ Len(filenames) >= 1
    /\ Len(verts[1]) > 0

----------------------------------------------------------------------------
\* Claims about get_fragments and get_meshes_batch

\* ceil(n / BatchCap)
BatchesNeeded(n) == (n + BatchCap - 1) \div BatchCap

\* C4: for a fragment list of length M >= 1 the call that returns has issued
\* exactly ceil(M/100) batch POSTs; no POST ever names more than 100
\* fragments (or none), and the POSTs issued so far name the fragments of
\* the list in order, each exactly once.
C4_BatchesCapped ==
    /\ \A b \in DOMAIN mesh_posts :
          Len(mesh_posts[b]) >= 1 /\ Len(mesh_posts[b]) <= BatchCap
    /\ Len(Flatten(mesh_posts)) <= Len(frags)
    /\ Flatten(mesh_posts) = SubSeq(frags, 1, Len(Flatten(mesh_posts)))
    /\ (mpc = "done" /\ Len(frags) >= 1) =>
          /\ Len(mesh_posts) = BatchesNeeded(Len(frags))
          /\ Flatten(mesh_posts) = frags

\* C4 witness: a list of 2 * 100 + 1 fragments was fetched in three POSTs,
\* the last one naming a single fragment.
C4_Witness ==
    /\ mpc = "done"
    /\ Len(frags) = 2 * BatchCap + 1
    /\ Len(mesh_posts) = 3
    /\ Len(mesh_posts[3]) = 1

\* number of vertices, and of faces, of the fragments merged before the k-th
MergedVertsBefore(k) == Len(Flatten([j \in 1..(k - 1) |-> received[j].verts]))
MergedFacesBefore(k) == Len(Flatten([j \in 1..(k - 1) |-> received[j].faces]))

\* C5: in the merged mesh every face of the k-th fragment has its indices
\* in [v1 + ... + v(k-1), v1 + ... + vk), over any number of batch responses,
\* so every face index is below the merged vertex count; fragments of 3 and 2
\* vertices with faces [0,1,2] and [0,1,1] merge to [0,1,2], [3,4,4] over 5
\* vertices.
C5_MergeOffsets ==
    mpc \in {"loop", "done"} =>
        /\ Len(mesh_verts) = MergedVertsBefore(Len(received) + 1)
        /\ Len(mesh_faces) = MergedFacesBefore(Len(received) + 1)
        /\ \A k \in DOMAIN received : \A f \in DOMAIN received[k].faces :
              \A c \in 1..3 :
                 /\ mesh_faces[MergedFacesBefore(k) + f][c] >= MergedVertsBefore(k)
                 /\ mesh_faces[MergedFacesBefore(k) + f][c] < MergedVertsBefore(k + 1)
                 /\ mesh_faces[MergedFacesBefore(k) + f][c] =
                        received[k].faces[f][c] + MergedVertsBefore(k)
        /\ \A f \in DOMAIN mesh_faces : \A c \in 1..3 :
              mesh_faces[f][c] < Len(mesh_verts)
        /\ (mpc = "done" /\ Len(frags) = 2 /\ mesh_faults = 0) =>
              /\ mesh_faces = <<<<0, 1, 2>>, <<3, 4, 4>>>>
              /\ Len(mesh_verts) = 5

\* C5 witness: a mesh was returned that merges more than one batch response,
\* the later one bringing faces.
C5_Witness ==
    /\ mpc = "done"
    /\ Len(mesh_posts) >= 2
    /\ Len(received) > BatchCap
    /\ MergedFacesBefore(Len(received) + 1) > MergedFacesBefore(BatchCap + 1)

MeshFinished == mpc \in {"done", "raised"}

\* the listing names no fragment: an empty JSON object, or empty lists
EmptyListing ==
    /\ StatusOk(listing)
    /\ ~listing.has_keys \/ Len(listing.fragmentKey) = 0

\* C9: when the listing names no fragment, the mesh fetch raises the
\* no-fragments error and issues no batch POST.
C9_NoFragmentsRaises ==
    (EmptyListing /\ MeshFinished) =>
        /\ mpc = "raised"
        /\ mesh_outcome.kind = "ValueError"
        /\ mesh_posts = <<>>

\* C10: once a batch response has a non-success status the call has raised
\* the transport's error: the body is not being decoded, nothing is merged
\* after it, and no mesh is returned.
C10_FailedBatchRaises ==
    (mesh_resp # 0 /\ ~StatusOk([status |-> mesh_resp])) =>
        /\ mpc = "raised"
        /\ mesh_outcome.kind = "HTTPError"


----------------------------------------------------------------------------
\* Claims about the failure paths of get_seg_at_location

\* a response that failed: a non-success status, or a body without the
\* uint64StrList.values list
BadResponse(r) == ~StatusOk(r) \/ ~r.has_values

\* some job's request has completed with a failed response
BadSeen ==
    \E j \in DOMAIN futures :
        futures[j].state = "done" /\ BadResponse(futures[j].response)

\* C11: once any job's response has a non-success status or lacks the label
\* list, no result array is ever returned, and the finished call has raised
\* (the status error first, else the missing-key error) with no labels.
C11_FailsWhole ==
    BadSeen =>
        /\ outcome.kind # "returned"
        /\ pc # "done"
        /\ Finished =>
              /\ pc = "raised"
              /\ outcome.value = <<>>
              /\ outcome.kind =
                    IF \E j \in DOMAIN resp : ~StatusOk(resp[j])
                      THEN "HTTPError" ELSE "KeyError"

\* C11 witness: a call of two jobs has raised, one job having answered with
\* its full label list and the other without the list.
C11_Witness ==
    /\ pc = "raised"
    /\ Len(resp) >= 2
    /\ \E j \in DOMAIN resp : resp[j] = Response(posts[j], "ok")
    /\ \E j \in DOMAIN resp : StatusOk(resp[j]) /\ ~resp[j].has_values

\* the requests answered so far for job j (each completion is recorded)
Attempts(j) == Cardinality({i \in DOMAIN completed : completed[i] = j})

\* the call raised the status error of raise_for_status
RaisedStatus == pc = "raised" /\ outcome.kind = "HTTPError"

\* C12 as claimed: a request answered with a non-success status is sent
\* again, so the call raises the status error only after some job was sent
\* more than once.
C12_RetriedBeforeRaise ==
    RaisedStatus =>
        \E j \in DOMAIN futures :
            /\ ~StatusOk(futures[j].response)
            /\ Attempts(j) > 1

\* C12 as the code has it: no job is ever sent twice, a non-success answer
\* stays the job's answer, and a finished call whose responses hold a
\* non-success status has raised the status error.
C12_SentOnce ==
    /\ \A j \in DOMAIN futures :
          /\ Attempts(j) <= 1
          /\ Attempts(j) = 1 <=> futures[j].state = "done"
    /\ (Finished /\ \E j \in DOMAIN resp : ~StatusOk(resp[j])) => RaisedStatus

\* C12 witness: a call of two jobs raised the status error after each job was
\* sent once, one of them answered with a non-success status.
C12_Witness ==
    /\ RaisedStatus
    /\ Len(futures) >= 2
    /\ \A j \in DOMAIN futures : Attempts(j) = 1
    /\ \E j \in DOMAIN futures : ~StatusOk(futures[j].response)
    /\ \E j \in DOMAIN futures : futures[j].response = Response(posts[j], "ok")

\* the jobs were handed to the pool and none is waiting for a worker
AllDispatched == pc \notin {"cluster", "build", "submit"} /\ Queued = {}

\* C13: never more than max_threads requests are in flight; a queued request
\* starts only when fewer than max_threads are in flight; and every job is
\* dispatched in the end.
C13_PoolBounded ==
    /\ [](Cardinality(Running) <= max_threads)
    /\ [][\A j \in DOMAIN futures :
             (futures[j].state = "queued" /\ futures'[j].state = "running")
                 => Cardinality(Running) < max_threads]_vars
    /\ <>[]AllDispatched

\* C13 witness: more jobs than workers; the pool is full, nothing waits any
\* more, and the job that is in flight had to wait for an earlier one to end.
C13_Witness ==
    /\ Len(futures) > max_threads
    /\ Cardinality(Running) = max_threads
    /\ Queued = {}
    /\ Len(completed) >= 1

\* the places (job, position) of seg_ix that hold the original index e
Writers(e) ==
    {<<j, q>> \in UNION {{j} \X DOMAIN seg_ix[j] : j \in DOMAIN seg_ix} :
        seg_ix[j][q] = e}

\* the jobs' index sets are pairwise disjoint and cover 0..N-1: every index
\* is held by one place of one job, and no job holds anything else
Partitioned ==
    /\ \A e \in 0..(Len(coords) - 1) : Cardinality(Writers(e)) = 1
    /\ \A j \in DOMAIN seg_ix : \A q \in DOMAIN seg_ix[j] :
          seg_ix[j][q] \in 0..(Len(coords) - 1)

\* C14: whatever labelling the clustering gives (empty clusters included),
\* the job-building step leaves index sets that are pairwise disjoint and
\* cover 0..N-1, so every result entry is written by exactly one job.
C14_JobsPartition == [][BuildJobs => Partitioned']_vars

\* C14 witness: a call returned whose labelling left a cluster empty and
\* whose coordinates went out in more than one job.
C14_Witness ==
    /\ pc = "done"
    /\ Len(seg_ix) >= 2
    /\ \E i \in 0..(n_chunks(Len(coords)) - 1) : Len(Where(labels, i)) = 0
    /\ Len(outcome.value) = Len(coords)

\* job j's response carries a label list that does not have one label per
\* coordinate of the job
Mismatched(j) ==
    /\ StatusOk(resp[j])
    /\ resp[j].has_values
    /\ Len(resp[j].values) # Len(seg_ix[j])

\* C15: a call in which some job's label list has another length than the
\* job has coordinates ends raised; it never returns a result.
C15_MismatchFails ==
    (Finished /\ \E j \in DOMAIN resp : Mismatched(j)) => pc = "raised"

----------------------------------------------------------------------------
\* Claims about the order of the batches of get_meshes_batch

\* the batches posted so far are the first chunks of the fragment list, in
\* list order, none of them twice
PostedInOrder ==
    \A k \in DOMAIN mesh_posts : mesh_posts[k] = Chunk(frags, (k - 1) * BatchCap)

\* the merged vertices are those of the fragments received, in the order
\* they were received
MergedInOrder ==
    mesh_verts = VStackInt([k \in DOMAIN received |-> received[k].verts])

\* C16: a batch is posted only when no request is outstanding and every
\* batch posted before has been decoded and merged; the k-th POST is the
\* k-th chunk of the fragment list, so no batch is sent twice; and the
\* merged mesh follows the order of the fragments: answered without a fault,
\* the call merges the fragments of the list one after the other.
C16_BatchesInOrder ==
    /\ [][mesh_posts' # mesh_posts =>
             /\ mpc = "loop" /\ ppc = "idle"
             /\ batch_i = Len(mesh_posts) * BatchCap
             /\ Len(received) >= Len(Flatten(mesh_posts)) \/ mesh_faults > 0
             /\ mesh_posts' = Append(mesh_posts, Chunk(frags, batch_i))]_vars
    /\ [](PostedInOrder /\ MergedInOrder)
    /\ []((mpc = "done" /\ mesh_faults = 0) =>
             received = [k \in DOMAIN frags |-> FragmentRecord(frags[k])])

\* C16 witness: a mesh of more than one batch was returned, every batch
\* answered in full, and it has vertices.
C16_Witness ==
    /\ mpc = "done"
    /\ mesh_faults = 0
    /\ Len(mesh_posts) >= 2
    /\ Len(received) = Len(frags)
    /\ Len(mesh_verts) > 0

----------------------------------------------------------------------------
\* Claims about the object ids parse_raw_ng returns

\* C17: every fragment in the decoder's result is associated with the object
\* id of its own record: the id returned with the fragments is the id of each
\* of their records, also when the records of a stream carry distinct ids.
C17_OwnObjectId ==
    ppc = "returned" =>
        \A k \in DOMAIN parsed.filenames :
            parsed.object_id = <<0, 0, sent[k].object_id>>
====
